---- MODULE Spec2Model ----
(***************************************************************************)
(* Model of the nucleus lifecycle coordinator, cmd/nucleus/bin.go: run().  *)
(* The main goroutine builds the pipeline and its collaborators, launches  *)
(* the pipeline task and the API server task under one cancellable         *)
(* context, launches a waiter that closes `done` once the WaitGroup drops  *)
(* to zero, and then selects between the interrupt channel c and done.     *)
(* pl.Start and server.ListenAndServe live in pkg/core and pkg/server; the *)
(* two task bodies are modelled from the specification (sections 4.1 and   *)
(* 6), everything else from bin.go.                                        *)
(***************************************************************************)
EXTENDS Integers, Sequences, FiniteSets, TLC

(* ---------------------------- bounds ----------------------------------- *)
\* interrupts the environment may send during one process lifetime
MaxInterrupts == 2
\* status requests a client may have outstanding at the local API
MaxPending == 1
\* granularity of the clock that drives the grace-period timer, in ms
TickMs == 2500

(* ------------------------ program constants ---------------------------- *)
\* const gracefulTimeout = 5000 * time.Millisecond
gracefulTimeout == 5000
\* c := make(chan os.Signal, 1)
SigChanCap == 1
\* fetch, diff, configure, discover, filter, execute, collect, report
Stages == << "fetch", "diff", "configure", "discover", "filter", "execute", "collect", "report" >>
NumStages == Len(Stages)
ReportStage == NumStages

\* the fields of the pipeline that run() assigns, each with the local it is
\* assigned from
FieldSource ==
  [ PayloadManager       |-> "pm",
    TASConfigManager     |-> "tcm",
    GitManager           |-> "gm",
    DiffManager          |-> "dm",
    TestDiscoveryService |-> "tds",
    TestBlockListService |-> "tbs",
    TestExecutionService |-> "tes",
    ExecutionManager     |-> "execManager",
    ParserService        |-> "parserService",
    CoverageService      |-> "coverageService",
    TestStats            |-> "ts",
    Task                 |-> "t",
    CacheStore           |-> "cache",
    SecretParser         |-> "secretParser" ]
Fields == DOMAIN FieldSource

\* the construction steps of run() in program order: the locals each one
\* binds and whether its error return is checked
SetupSteps ==
  << [name |-> "LoadNucleusConfig",       binds |-> {"cfg"},             fails |-> TRUE],
     [name |-> "NewLogger",               binds |-> {"logger"},          fails |-> TRUE],
     [name |-> "NewPipeline",             binds |-> {"pl"},              fails |-> TRUE],
     [name |-> "teststats.New",           binds |-> {"ts"},              fails |-> TRUE],
     [name |-> "NewAzureBlobEnv",         binds |-> {"azureClient"},     fails |-> TRUE],
     [name |-> "plugins",
      binds |-> {"pm", "secretParser", "tcm", "gm", "dm", "execManager", "tds", "tes"},
      fails |-> FALSE],
     [name |-> "NewTestBlockListService", binds |-> {"tbs"},             fails |-> TRUE],
     [name |-> "NewRouter",               binds |-> {"router"},          fails |-> FALSE],
     [name |-> "task.New",                binds |-> {"t"},               fails |-> TRUE],
     [name |-> "zstd.New",                binds |-> {"zstd"},            fails |-> TRUE],
     [name |-> "cachemanager.New",        binds |-> {"cache"},           fails |-> TRUE],
     [name |-> "parser.New",              binds |-> {"parserService"},   fails |-> TRUE],
     [name |-> "coverage.New",            binds |-> {"coverageService"}, fails |-> TRUE] >>

Tasks == {"pipeline", "server"}
Sibling(t) == IF t = "pipeline" THEN "server" ELSE "pipeline"

VARIABLES
  mainPc,      \* position of the main goroutine in run()
  setupIdx,    \* next entry of SetupSteps to execute
  locals,      \* the locals of run() bound so far
  startupErr,  \* name of the construction step that failed, or "none"
  plFields,    \* the fields of pl that hold a collaborator
  exitCode,    \* -1 while the process lives, else its exit status
  logs,        \* the lines logged by the coordinator
  ctxDone,     \* ctx.Done() is closed
  cancelCalls, \* the sites that have called cancel()
  wg,          \* counter of the WaitGroup
  g,           \* g[t]: position of the goroutine running task t
  plState,     \* orchestrator state: NotStarted, Running, Completed, ...
  stageIdx,    \* index of the stage last invoked (0: none)
  inStage,     \* a stage has been invoked and has not returned
  plFatal,     \* a stage failed with a Fatal classification
  reports,     \* final reports sent to the control plane
  pending,     \* status requests waiting at the local API
  waiterPc,    \* position of the goroutine that waits on wg
  doneClosed,  \* close(done) has run
  notified,    \* signal.Notify(c, os.Interrupt) has run
  c,           \* signals buffered in channel c
  interrupts,  \* interrupts sent so far
  timerLeft,   \* ms left on time.After(gracefulTimeout); -1: not armed
  sel,         \* the case a blocked select has been woken for
  intrEarly,   \* the interrupt was handled before both tasks had finished
  doneAt       \* timerLeft at the moment done was closed; -2: still open

vars == << mainPc, setupIdx, locals, startupErr, plFields, exitCode, logs, ctxDone,
           cancelCalls, wg, g, plState, stageIdx, inStage, plFatal, reports, pending,
           waiterPc, doneClosed, notified, c, interrupts, timerLeft, sel, intrEarly,
           doneAt >>

mainVars   == << mainPc, setupIdx, locals, startupErr, plFields >>
plVars     == << plState, stageIdx, inStage, plFatal, reports >>
sigVars    == << notified, c, interrupts >>

Init ==
  /\ mainPc = "setup"
  /\ setupIdx = 1
  /\ locals = {}
  /\ startupErr = "none"
  /\ plFields = {}
  /\ exitCode = -1
  /\ logs = {}
  /\ ctxDone = FALSE
  /\ cancelCalls = {}
  /\ wg = 0
  /\ g = [t \in Tasks |-> "none"]
  /\ plState = "NotStarted"
  /\ stageIdx = 0
  /\ inStage = FALSE
  /\ plFatal = FALSE
  /\ reports = 0
  /\ pending = 0
  /\ waiterPc = "none"
  /\ doneClosed = FALSE
  /\ notified = FALSE
  /\ c = 0
  /\ interrupts = 0
  /\ timerLeft = -1
  /\ sel = "none"
  /\ intrEarly = FALSE
  /\ doneAt = -2

\* the process has not terminated
Alive == exitCode = -1


\* the tasks whose function (pl.Start, server.ListenAndServe) has returned
Finished(t) == g[t] \in {"deferDone", "deferCancel", "returned"}
BothFinished == \A t \in Tasks : Finished(t)

(* ------------------- context.WithCancel / cancel() --------------------- *)
\* cancel() called from `site` while Done is in state d: Done is closed, and
\* stays closed on every later call
CancelToggles(site, d) == ~d
CancelSkipsInterrupt(site, d) == IF site = "interrupt" THEN d ELSE TRUE
CancelSkipsTask(site, d) == IF site \in Tasks THEN d ELSE TRUE
CancelSkipsPipeline(site, d) == IF site = "pipeline" THEN d ELSE TRUE
Cancel(site, d) == TRUE

(* ------------------------- process exit status ------------------------- *)
\* the status the process ends with on each way out of run(): os.Exit(1)
\* and the Fatalf calls during construction, os.Exit(0) on the done branch of
\* the outer select, and the plain return at the end of run, after which the
\* command (Run: run, which returns no error) ends with status 0
ExitStatusDoneOne(path) == IF path = "startup" \/ path = "done" THEN 1 ELSE 0
ExitStatus(path) == IF path = "startup" THEN 1 ELSE 0

(* ----------------------- construction, lines 67-149 -------------------- *)
\* the error values a construction step can return
ErrOutcomes(step) == IF step.fails THEN BOOLEAN ELSE {FALSE}

\* if err != nil { ...; os.Exit(1) } and the Fatalf variants of it
ExitsOnErrorUnlessAzure(step, err) == err /\ step.name # "NewAzureBlobEnv"
ExitsOnError(step, err) == err

Setup ==
  /\ Alive
  /\ mainPc = "setup"
  /\ LET step == SetupSteps[setupIdx] IN
     \E err \in ErrOutcomes(step) :
       /\ startupErr' = IF err THEN step.name ELSE startupErr
       /\ IF ExitsOnError(step, err)
          THEN /\ exitCode' = ExitStatus("startup")
               /\ mainPc' = "exited"
               /\ logs' = logs \cup {"startup failed"}
               /\ UNCHANGED << setupIdx, locals >>
          ELSE /\ locals' = locals \cup step.binds
               /\ setupIdx' = setupIdx + 1
               /\ mainPc' = IF setupIdx = Len(SetupSteps) THEN "attach" ELSE "setup"
               /\ UNCHANGED << exitCode, logs >>
  /\ UNCHANGED << plFields, ctxDone, cancelCalls, wg, g, plVars, pending, waiterPc,
                  doneClosed, sigVars, timerLeft, sel, intrEarly, doneAt >>

(* ------------------ attach plugins to pipeline, 151-166 ---------------- *)
AttachAllButCache(ls) == {f \in Fields : FieldSource[f] \in ls} \ {"CacheStore"}
AttachPlugins(ls) == {f \in Fields : FieldSource[f] \in ls}

Attach ==
  /\ Alive
  /\ mainPc = "attach"
  /\ plFields' = AttachPlugins(locals)
  /\ mainPc' = "launchPipeline"
  /\ UNCHANGED << setupIdx, locals, startupErr, exitCode, logs, ctxDone, cancelCalls,
                  wg, g, plVars, pending, waiterPc, doneClosed, sigVars, timerLeft, sel,
                  intrEarly, doneAt >>

(* ---------------- wg.Add(1); go func() {...}(), 168-180 ---------------- *)
\* the main goroutine's position after it has launched task t
AfterLaunch(t) == IF t = "pipeline" THEN "launchServer" ELSE "notify"
LaunchPc(t) == IF t = "pipeline" THEN "launchPipeline" ELSE "launchServer"

\* wg.Add(1), called by the main goroutine before the go statement of task t
WgAddPipelineOnly(t, n) == IF t = "pipeline" THEN n + 1 ELSE n
WgAdd(t, n) == n + 1

Launch(t) ==
  /\ Alive
  /\ mainPc = LaunchPc(t)
  /\ wg' = WgAdd(t, wg)
  /\ g' = [g EXCEPT ![t] = "ready"]
  /\ mainPc' = AfterLaunch(t)
  /\ UNCHANGED << setupIdx, locals, startupErr, plFields, exitCode, logs, ctxDone,
                  cancelCalls, plVars, pending, waiterPc, doneClosed, sigVars, timerLeft,
                  sel, intrEarly, doneAt >>

(* ------- c := make(chan os.Signal, 1); signal.Notify, 182-183 ---------- *)
Notify ==
  /\ Alive
  /\ mainPc = "notify"
  /\ notified' = TRUE
  /\ mainPc' = "launchWaiter"
  /\ UNCHANGED << setupIdx, locals, startupErr, plFields, exitCode, logs, ctxDone,
                  cancelCalls, wg, g, plVars, pending, waiterPc, doneClosed, c,
                  interrupts, timerLeft, sel, intrEarly, doneAt >>

(* ------------- done := make(chan struct{}); go func(), 188-196 --------- *)
LaunchWaiter ==
  /\ Alive
  /\ mainPc = "launchWaiter"
  /\ waiterPc' = "wait"
  /\ mainPc' = "select"
  /\ UNCHANGED << setupIdx, locals, startupErr, plFields, exitCode, logs, ctxDone,
                  cancelCalls, wg, g, plVars, pending, doneClosed, sigVars, timerLeft,
                  sel, intrEarly, doneAt >>

(* ------------------- the two task goroutines, 169-180 ------------------ *)
\* a goroutine created by a go statement runs as soon as it is scheduled,
\* whatever the other goroutines are doing
TaskRunnableInOrder(t) == g[t] = "ready" /\ (t = "server" => Finished("pipeline"))
TaskRunnableAgain(t) == g[t] \in {"ready", "returned"}
TaskRunnable(t) == g[t] = "ready"

\* pl.Start(ctx) is entered
PlStart ==
  /\ Alive
  /\ TaskRunnable("pipeline")
  /\ g' = [g EXCEPT !["pipeline"] = "running"]
  /\ plState' = "Running"
  /\ UNCHANGED << mainVars, exitCode, logs, ctxDone, cancelCalls, wg, stageIdx, inStage,
                  plFatal, reports, pending, waiterPc, doneClosed, sigVars, timerLeft,
                  sel, intrEarly, doneAt >>

\* the stage the orchestrator invokes next: the fixed order, or straight to
\* the report after a Fatal failure
NextStageDiffFirst ==
  IF plFatal THEN ReportStage
  ELSE IF stageIdx = 0 THEN 2 ELSE IF stageIdx = 2 THEN 1 ELSE IF stageIdx = 1 THEN 3
  ELSE stageIdx + 1
NextStageIgnoresFatal == stageIdx + 1
NextStage == IF plFatal THEN ReportStage ELSE stageIdx + 1

\* the orchestrator's check of the run-scoped cancellation signal, whose
\* state is d
StopNeverRequested(d) == FALSE
StopRequested(d) == d

\* between two stages the orchestrator checks the cancellation signal and
\* either stops (Start returns) or invokes the next stage
PlInvokeStage ==
  /\ Alive
  /\ g["pipeline"] = "running"
  /\ plState = "Running"
  /\ ~inStage
  /\ IF StopRequested(ctxDone)
     THEN /\ plState' = "Cancelled"
          /\ g' = [g EXCEPT !["pipeline"] = "deferDone"]
          /\ UNCHANGED << stageIdx, inStage >>
     ELSE /\ stageIdx' = NextStage
          /\ inStage' = TRUE
          /\ UNCHANGED << plState, g >>
  /\ UNCHANGED << mainVars, exitCode, logs, ctxDone, cancelCalls, wg, plFatal, reports,
                  pending, waiterPc, doneClosed, sigVars, timerLeft, sel, intrEarly, doneAt >>

StageResults == {"ok", "degraded", "fatal"}

\* the stage in progress returns with classification r; the report stage
\* sends the final report and ends the run
PlStageReturn(r) ==
  /\ Alive
  /\ g["pipeline"] = "running"
  /\ inStage
  /\ inStage' = FALSE
  /\ IF stageIdx = ReportStage
     THEN /\ reports' = reports + 1
          /\ plState' = IF plFatal THEN "FatalAborted" ELSE "Completed"
          /\ g' = [g EXCEPT !["pipeline"] = "deferDone"]
          /\ UNCHANGED plFatal
     ELSE /\ plFatal' = (plFatal \/ r = "fatal")
          /\ UNCHANGED << reports, plState, g >>
  /\ UNCHANGED << mainVars, exitCode, logs, ctxDone, cancelCalls, wg, stageIdx, pending,
                  waiterPc, doneClosed, sigVars, timerLeft, sel, intrEarly, doneAt >>

\* server.ListenAndServe(ctx, router, cfg, logger) is entered
SrvStart ==
  /\ Alive
  /\ TaskRunnable("server")
  /\ g' = [g EXCEPT !["server"] = "running"]
  /\ UNCHANGED << mainVars, exitCode, logs, ctxDone, cancelCalls, wg, plVars, pending,
                  waiterPc, doneClosed, sigVars, timerLeft, sel, intrEarly, doneAt >>

\* a supervisor sends a status request to the local API
ClientRequest ==
  /\ Alive
  /\ pending < MaxPending
  /\ pending' = pending + 1
  /\ UNCHANGED << mainVars, exitCode, logs, ctxDone, cancelCalls, wg, g, plVars,
                  waiterPc, doneClosed, sigVars, timerLeft, sel, intrEarly, doneAt >>

\* the server answers a status request
SrvServe ==
  /\ Alive
  /\ g["server"] = "running"
  /\ pending > 0
  /\ pending' = pending - 1
  /\ UNCHANGED << mainVars, exitCode, logs, ctxDone, cancelCalls, wg, g, plVars,
                  waiterPc, doneClosed, sigVars, timerLeft, sel, intrEarly, doneAt >>

\* ListenAndServe returns: on the cancellation signal, or with an error of
\* its own
SrvReturn(onSignal) ==
  /\ Alive
  /\ g["server"] = "running"
  /\ onSignal => ctxDone
  /\ g' = [g EXCEPT !["server"] = "deferDone"]
  /\ UNCHANGED << mainVars, exitCode, logs, ctxDone, cancelCalls, wg, plVars, pending,
                  waiterPc, doneClosed, sigVars, timerLeft, sel, intrEarly, doneAt >>

\* defer wg.Done()
TaskWgDone(t) ==
  /\ Alive
  /\ g[t] = "deferDone"
  /\ wg' = wg - 1
  /\ g' = [g EXCEPT ![t] = "deferCancel"]
  /\ UNCHANGED << mainVars, exitCode, logs, ctxDone, cancelCalls, plVars, pending,
                  waiterPc, doneClosed, sigVars, timerLeft, sel, intrEarly, doneAt >>

\* defer cancel()
TaskCancel(t) ==
  /\ Alive
  /\ g[t] = "deferCancel"
  /\ ctxDone' = Cancel(t, ctxDone)
  /\ cancelCalls' = cancelCalls \cup {t}
  /\ g' = [g EXCEPT ![t] = "returned"]
  /\ UNCHANGED << mainVars, exitCode, logs, wg, plVars, pending, waiterPc, doneClosed,
                  sigVars, timerLeft, sel, intrEarly, doneAt >>

(* ------------------------ the waiter, 191-196 -------------------------- *)
\* a select blocked in the main goroutine with no case chosen yet
Blocked == mainPc \in {"selectWait", "innerWait"} /\ sel = "none"

\* wg.Wait() returns
WaiterWait ==
  /\ Alive
  /\ waiterPc = "wait"
  /\ wg = 0
  /\ waiterPc' = "close"
  /\ UNCHANGED << mainVars, exitCode, logs, ctxDone, cancelCalls, wg, g, plVars, pending,
                  doneClosed, sigVars, timerLeft, sel, intrEarly, doneAt >>

\* logger.Debugf(...); close(done): a select blocked on done is woken for it
WaiterClose ==
  /\ Alive
  /\ waiterPc = "close"
  /\ logs' = logs \cup {"all goroutines have finished"}
  /\ doneClosed' = TRUE
  /\ sel' = IF Blocked THEN "done" ELSE sel
  /\ doneAt' = timerLeft
  /\ waiterPc' = "finished"
  /\ UNCHANGED << mainVars, exitCode, ctxDone, cancelCalls, wg, g, plVars, pending,
                  sigVars, timerLeft, intrEarly >>

(* ---------------------- the outer select, 199-216 ---------------------- *)
\* select { case <-c: ... case <-done: ... }: a case that is ready is taken,
\* any of them when both are; with none ready the goroutine blocks and the
\* first event on c or done wakes it
\* case <-done can proceed: done is the channel the waiter closes, not the
\* context's Done channel
DoneReadyOnCancel(closed, cancelled) == closed \/ cancelled
DoneReady(closed, cancelled) == closed

SelectEnter ==
  /\ Alive
  /\ mainPc = "select"
  /\ \/ c > 0 /\ sel' = "c" /\ c' = c - 1
     \/ DoneReady(doneClosed, ctxDone) /\ sel' = "done" /\ c' = c
     \/ c = 0 /\ ~DoneReady(doneClosed, ctxDone) /\ sel' = "none" /\ c' = c
  /\ mainPc' = "selectWait"
  /\ UNCHANGED << setupIdx, locals, startupErr, plFields, exitCode, logs, ctxDone,
                  cancelCalls, wg, g, plVars, pending, waiterPc, doneClosed, notified,
                  interrupts, timerLeft, intrEarly, doneAt >>

\* case <-c: log, then cancel()
CaseInterrupt ==
  /\ Alive
  /\ mainPc = "selectWait"
  /\ sel = "c"
  /\ logs' = logs \cup {"received C-c", "telling goroutines to stop"}
  /\ ctxDone' = Cancel("interrupt", ctxDone)
  /\ cancelCalls' = cancelCalls \cup {"interrupt"}
  /\ intrEarly' = ~BothFinished
  /\ sel' = "none"
  /\ mainPc' = "innerSelect"
  /\ UNCHANGED << setupIdx, locals, startupErr, plFields, exitCode, wg, g, plVars,
                  pending, waiterPc, doneClosed, sigVars, timerLeft, doneAt >>


\* case <-done: os.Exit(0)
CaseDone ==
  /\ Alive
  /\ mainPc = "selectWait"
  /\ sel = "done"
  /\ exitCode' = ExitStatus("done")
  /\ mainPc' = "exited"
  /\ sel' = "none"
  /\ UNCHANGED << setupIdx, locals, startupErr, plFields, logs, ctxDone, cancelCalls, wg,
                  g, plVars, pending, waiterPc, doneClosed, sigVars, timerLeft,
                  intrEarly, doneAt >>

(* ---------------------- the inner select, 206-211 ---------------------- *)
\* the case taken on entering the inner select: done when it is already
\* closed (the timer, armed on entry, cannot have fired); none otherwise
InnerPollTimerOnly(closed) == "none"
InnerPoll(closed) == IF closed THEN "done" ELSE "none"

\* entering the select evaluates time.After(gracefulTimeout), which arms the
\* timer, and polls the cases
InnerEnter ==
  /\ Alive
  /\ mainPc = "innerSelect"
  /\ timerLeft' = gracefulTimeout
  /\ sel' = InnerPoll(doneClosed)
  /\ mainPc' = "innerWait"
  /\ UNCHANGED << setupIdx, locals, startupErr, plFields, exitCode, logs, ctxDone,
                  cancelCalls, wg, g, plVars, pending, waiterPc, doneClosed, sigVars,
                  intrEarly, doneAt >>

\* case <-done
InnerDone ==
  /\ Alive
  /\ mainPc = "innerWait"
  /\ sel = "done"
  /\ logs' = logs \cup {"Go routines exited within timeout"}
  /\ sel' = "none"
  /\ mainPc' = "return"
  /\ UNCHANGED << setupIdx, locals, startupErr, plFields, exitCode, ctxDone, cancelCalls,
                  wg, g, plVars, pending, waiterPc, doneClosed, sigVars, timerLeft,
                  intrEarly, doneAt >>

\* case <-time.After(gracefulTimeout)
InnerTimeout ==
  /\ Alive
  /\ mainPc = "innerWait"
  /\ sel = "timeout"
  /\ logs' = logs \cup {"Graceful timeout exceeded"}
  /\ sel' = "none"
  /\ mainPc' = "return"
  /\ UNCHANGED << setupIdx, locals, startupErr, plFields, exitCode, ctxDone, cancelCalls,
                  wg, g, plVars, pending, waiterPc, doneClosed, sigVars, timerLeft,
                  intrEarly, doneAt >>

\* run returns: the deferred cancel() of line 59 runs, the command has no
\* error to report (Run: run) and the process ends with status 0
Return ==
  /\ Alive
  /\ mainPc = "return"
  /\ ctxDone' = Cancel("return", ctxDone)
  /\ cancelCalls' = cancelCalls \cup {"return"}
  /\ exitCode' = ExitStatus("return")
  /\ mainPc' = "returned"
  /\ UNCHANGED << setupIdx, locals, startupErr, plFields, logs, wg, g, plVars, pending,
                  waiterPc, doneClosed, sigVars, timerLeft, sel, intrEarly, doneAt >>

(* ----------------------------- environment ----------------------------- *)
Max(a, b) == IF a > b THEN a ELSE b

\* the channel of time.After delivers once nothing is left on the timer
TimerNeverFires(left) == FALSE
TimerFires(left) == left = 0

\* TickMs of time pass on the armed timer; at zero it fires and wakes a
\* select still blocked on it
Tick ==
  /\ Alive
  /\ timerLeft > 0
  /\ timerLeft' = Max(0, timerLeft - TickMs)
  /\ sel' = IF TimerFires(timerLeft') /\ mainPc = "innerWait" /\ sel = "none"
            THEN "timeout" ELSE sel
  /\ UNCHANGED << mainVars, exitCode, logs, ctxDone, cancelCalls, wg, g, plVars, pending,
                  waiterPc, doneClosed, sigVars, intrEarly, doneAt >>

\* an os.Interrupt reaches the process: before signal.Notify it has its
\* default disposition and kills the process; afterwards it is sent to c
\* without blocking, waking a select blocked on c, and is dropped when the
\* buffer is full
Interrupt ==
  /\ Alive
  /\ interrupts < MaxInterrupts
  /\ interrupts' = interrupts + 1
  /\ IF ~notified
     THEN /\ exitCode' = 130
          /\ mainPc' = "killed"
          /\ UNCHANGED << c, sel >>
     ELSE /\ IF mainPc = "selectWait" /\ sel = "none"
             THEN sel' = "c" /\ c' = c
             ELSE sel' = sel /\ c' = IF c < SigChanCap THEN c + 1 ELSE c
          /\ UNCHANGED << exitCode, mainPc >>
  /\ UNCHANGED << setupIdx, locals, startupErr, plFields, logs, ctxDone, cancelCalls, wg,
                  g, plVars, pending, waiterPc, doneClosed, notified, timerLeft,
                  intrEarly, doneAt >>

(* ---------------------------- specification ---------------------------- *)
Next ==
  \/ Setup
  \/ Attach
  \/ \E t \in Tasks : Launch(t)
  \/ Notify
  \/ LaunchWaiter
  \/ SelectEnter
  \/ CaseInterrupt
  \/ CaseDone
  \/ InnerEnter
  \/ InnerDone
  \/ InnerTimeout
  \/ Return
  \/ PlStart
  \/ PlInvokeStage
  \/ \E r \in StageResults : PlStageReturn(r)
  \/ SrvStart
  \/ SrvServe
  \/ \E onSignal \in BOOLEAN : SrvReturn(onSignal)
  \/ \E t \in Tasks : TaskWgDone(t)
  \/ \E t \in Tasks : TaskCancel(t)
  \/ WaiterWait
  \/ WaiterClose
  \/ ClientRequest
  \/ Tick
  \/ Interrupt

Spec == Init /\ [][Next]_vars

\* the steps of the main goroutine
MainStep ==
  \/ Setup \/ Attach \/ (\E t \in Tasks : Launch(t)) \/ Notify \/ LaunchWaiter
  \/ SelectEnter \/ CaseInterrupt \/ CaseDone \/ InnerEnter \/ InnerDone
  \/ InnerTimeout \/ Return

\* The Go scheduler runs every runnable goroutine, and time passes: the main
\* goroutine, the waiter, the deferred calls of the two task goroutines, the
\* entry of each task and its check of the cancellation signal take their
\* step when they can.  Nothing obliges a stage to return, the server to
\* fail, a client to send a request or an interrupt to arrive.
FairSpec ==
  /\ Spec
  /\ WF_vars(MainStep)
  /\ WF_vars(WaiterWait)
  /\ WF_vars(WaiterClose)
  /\ WF_vars(Tick)
  /\ WF_vars(PlStart)
  /\ WF_vars(PlInvokeStage)
  /\ WF_vars(SrvStart)
  /\ WF_vars(SrvReturn(TRUE))
  /\ \A t \in Tasks : WF_vars(TaskWgDone(t)) /\ WF_vars(TaskCancel(t))

\* a stage in progress returns once the cancellation signal is triggered
StageHonoursSignal == ctxDone /\ \E r \in StageResults : PlStageReturn(r)

\* FairSpec for tasks that both honour the cancellation signal: the server
\* returns on it (already fair above) and so does a stage in progress
HonourSpec == FairSpec /\ WF_vars(StageHonoursSignal)

(* ------------------------------- claims -------------------------------- *)
\* the coordinator itself ended the process: os.Exit, or run returned
CoordinatorExited == mainPc \in {"exited", "returned"}
TimeoutReported == "Graceful timeout exceeded" \in logs
WithinTimeoutReported == "Go routines exited within timeout" \in logs
InterruptHandled == "interrupt" \in cancelCalls

\* C1: when both tasks have finished before any interrupt is handled (none
\* is handled at all, or the one handled found both tasks finished), the
\* coordinator ends the process with status 0.
C1_ExitZeroWhenTasksFinishFirst ==
  (CoordinatorExited /\ BothFinished /\ ~intrEarly) => exitCode = 0

\* both tasks finished, no interrupt was handled, os.Exit(0) was called
C1_Witness ==
  mainPc = "exited" /\ BothFinished /\ ~InterruptHandled /\ doneClosed /\ exitCode = 0

\* C2: on the interrupt path cancel() comes first: the coordinator waits in
\* the inner select only with the signal triggered, the timer is armed only
\* by entering that select, with 5000 ms and with the signal triggered, and
\* the timeout case is never chosen with the signal untriggered.
C2_ShutdownOrdered ==
  /\ [](mainPc \in {"innerSelect", "innerWait"} => ctxDone /\ InterruptHandled)
  /\ [](timerLeft >= 0 => ctxDone /\ InterruptHandled)
  /\ []((sel = "timeout" \/ TimeoutReported) => ctxDone)
  /\ [][timerLeft = -1 /\ timerLeft' # -1
          => mainPc = "innerSelect" /\ ctxDone /\ timerLeft' = 5000]_vars

\* the interrupt branch alone triggered the signal, and the timer it armed
\* afterwards has fired
C2_Witness ==
  /\ mainPc = "innerWait"
  /\ sel = "timeout"
  /\ timerLeft = 0
  /\ cancelCalls = {"interrupt"}
  /\ ctxDone

\* C3: when the grace period elapses after an interrupt before both tasks
\* have finished, the timeout is reported and the process ends with a
\* non-zero exit code.
C3_TimeoutExitsNonZero ==
  (~Alive /\ InterruptHandled /\ sel # "done" /\ ~doneClosed /\ timerLeft = 0)
     => TimeoutReported /\ exitCode # 0

\* C4: when the pipeline ended in a Fatal failure the process exit code is
\* non-zero.
C4_FatalExitsNonZero ==
  (~Alive /\ plState = "FatalAborted") => exitCode # 0

\* done was closed while the grace period had not elapsed
DoneWithinGrace == doneClosed /\ doneAt # 0

StillRunning(t) == Alive /\ ~Finished(t)

\* C6: whenever a task has finished (its function returned, for whatever
\* reason) while its sibling has not, the cancellation signal is eventually
\* triggered unless the sibling stops being there to observe it (it finished
\* on its own, or the process ended): no sibling waits forever for a signal
\* that never comes.
C6_SiblingEventuallySignalled ==
  /\ (Finished("pipeline") /\ StillRunning("server"))
        ~> (ctxDone \/ ~StillRunning("server"))
  /\ (Finished("server") /\ StillRunning("pipeline"))
        ~> (ctxDone \/ ~StillRunning("pipeline"))

\* the pipeline's deferred cancel() alone triggered the signal while the
\* server was still serving
C6_Witness ==
  /\ Alive
  /\ cancelCalls = {"pipeline"}
  /\ ctxDone
  /\ g["server"] = "running"

\* C7: the signal is triggered exactly when some trigger site has called
\* cancel(); whichever sites call it and in whatever order, every call leaves
\* it triggered and it never goes back to untriggered; and the pipeline
\* stops as Cancelled only with the signal triggered.
C7_SignalIdempotent ==
  /\ [](ctxDone <=> cancelCalls # {})
  /\ [][ /\ ctxDone => ctxDone'
         /\ cancelCalls' # cancelCalls => ctxDone'
         /\ (plState # "Cancelled" /\ plState' = "Cancelled") => ctxDone ]_vars

\* all four trigger sites have fired
C7_Witness ==
  /\ cancelCalls = {"pipeline", "server", "interrupt", "return"}
  /\ ctxDone

\* C8: once a construction step has returned an error the process has
\* exited with status 1 and neither task has been launched.
C8_StartupErrorExitsBeforeLaunch ==
  startupErr # "none"
     => /\ exitCode = 1
        /\ mainPc = "exited"
        /\ \A t \in Tasks : g[t] = "none"
        /\ wg = 0
        /\ plState = "NotStarted"

\* the blob client could not be built
C8_Witness == startupErr = "NewAzureBlobEnv" /\ exitCode = 1

\* C9: from the launch of the pipeline task on, every field of the pipeline
\* holds its collaborator, and the fields are assigned by run() alone, in
\* its attach step.
C9_CollaboratorsWiredBeforeStart ==
  /\ [](g["pipeline"] # "none" => plFields = Fields)
  /\ [][plFields' # plFields => mainPc = "attach" /\ g["pipeline"] = "none"]_vars

\* the pipeline is inside a stage with all fourteen fields set
C9_Witness ==
  /\ g["pipeline"] = "running"
  /\ inStage
  /\ Cardinality(plFields) = 14

\* C10: while the pipeline is inside a stage, the signal is untriggered and
\* the server task has not finished, the server side can always take its
\* next step whatever the pipeline does: be launched, enter ListenAndServe,
\* or answer the request that is waiting.
C10_ServerIndependentOfPipeline ==
  (Alive /\ inStage /\ ~ctxDone /\ ~Finished("server"))
     => /\ g["server"] = "none" => ENABLED Launch("server")
        /\ g["server"] = "ready" => ENABLED SrvStart
        /\ (g["server"] = "running" /\ pending > 0) => ENABLED SrvServe

\* a status request is waiting at the serving server while the pipeline is
\* inside its execute stage
C10_Witness ==
  /\ Alive
  /\ inStage
  /\ Stages[stageIdx] = "execute"
  /\ ~ctxDone
  /\ g["server"] = "running"
  /\ pending > 0

\* C11: a stage is invoked only while no stage is in progress, and the stage
\* invoked is the successor in the fixed order of the stage invoked last (or,
\* after a Fatal failure, the report stage, which lies later in the order):
\* the stages run in the fixed order and never overlap.
C11_StagesInOrder ==
  /\ [](inStage => stageIdx \in 1..NumStages)
  /\ [][ stageIdx' # stageIdx
           => /\ ~inStage /\ inStage'
              /\ \/ stageIdx' = stageIdx + 1
                 \/ plFatal /\ stageIdx' = ReportStage /\ stageIdx' > stageIdx ]_vars
  /\ [][ (~inStage /\ inStage') => stageIdx' > stageIdx ]_vars

\* the report stage is in progress after all seven stages before it returned
\* without a Fatal failure
C11_Witness ==
  /\ inStage
  /\ Stages[stageIdx] = "report"
  /\ ~plFatal

\* the pipeline run is over: pl.Start has returned, or the coordinator has
\* returned from run and ended the process under it
RunOver == Finished("pipeline") \/ (mainPc = "returned" /\ plState # "NotStarted")

C13_NoStageAfterCancel ==
  /\ [][ (~inStage /\ inStage') => ~ctxDone ]_vars
  /\ [][ stageIdx' # stageIdx => ~ctxDone ]_vars
  /\ [][ (plState # "Cancelled" /\ plState' = "Cancelled")
           => ctxDone /\ ~inStage /\ ~inStage' /\ stageIdx' = stageIdx ]_vars
  /\ [][ ctxDone' # ctxDone => (inStage' = inStage /\ stageIdx' = stageIdx) ]_vars
  /\ [][ (inStage /\ ~inStage') => plState' # "Cancelled" ]_vars

\* the signal was triggered while the execute stage was in progress, and the
\* stage is still in progress
C13_Witness ==
  /\ Alive
  /\ ctxDone
  /\ inStage
  /\ Stages[stageIdx] = "execute"
  /\ plState = "Running"

Terminal == {"Completed", "FatalAborted", "Cancelled"}

\* C14: the orchestrator moves only from NotStarted to Running and from
\* Running to one terminal state; a terminal state, once set, is never
\* changed or set again, no stage runs in it and pl.Start is not entered
\* again.
C14_OneTerminalState ==
  /\ [](plState \in {"NotStarted", "Running"} \cup Terminal)
  /\ [](plState \in Terminal => (~inStage /\ Finished("pipeline")))
  /\ [][ (plState \in Terminal) => plState' = plState ]_vars
  /\ [][ plState' # plState
           => \/ plState = "NotStarted" /\ plState' = "Running"
              \/ plState = "Running" /\ plState' \in Terminal ]_vars

\* the run was cancelled after a Fatal failure, before the report stage:
\* it is Cancelled, not FatalAborted, and its goroutine has returned
C14_Witness ==
  /\ plState = "Cancelled"
  /\ plFatal
  /\ g["pipeline"] = "returned"

\* task t has been launched and its function has not returned
TaskRunning(t) == g[t] \in {"ready", "running"}

\* C15: an interrupt delivered once a task has been launched never bypasses
\* the graceful shutdown: the process is not ended by the interrupt's default
\* disposition while a task is there.
C15_InterruptNeverBypassesShutdown ==
  mainPc = "killed" => \A t \in Tasks : g[t] = "none"

\* C16: done is closed only by the waiter, only once, and only when the
\* WaitGroup is at zero with both task functions returned and both deferred
\* wg.Done() calls made; it is never closed while a task is still running.
C16_DoneBarrierSound ==
  /\ [](doneClosed => (wg = 0 /\ \A t \in Tasks : g[t] \in {"deferCancel", "returned"}))
  /\ [](waiterPc \in {"close", "finished"} => BothFinished)
  /\ [](wg \in 0..2)
  /\ [][ doneClosed' # doneClosed
           => (~doneClosed /\ waiterPc = "close" /\ waiterPc' = "finished") ]_vars
  /\ [][ doneClosed => (doneClosed' /\ waiterPc' = waiterPc /\ doneAt' = doneAt) ]_vars

\* done has been closed with both tasks returned, while the main goroutine
\* is blocked in the outer select
C16_Witness ==
  /\ Alive
  /\ doneClosed
  /\ BothFinished
  /\ mainPc = "selectWait"
  /\ sel = "done"

\* C17: the grace timer is armed only after an interrupt has been handled;
\* with none handled no time runs against the tasks and the coordinator ends
\* the process only through done, that is with both tasks finished; and as
\* long as no interrupt has arrived a task that has not finished keeps the
\* process alive, whether or not the signal has been triggered.
C17_GraceOnlyAfterInterrupt ==
  /\ timerLeft >= 0 => InterruptHandled
  /\ (Alive /\ ~InterruptHandled) => ~ENABLED Tick
  /\ (CoordinatorExited /\ ~InterruptHandled /\ startupErr = "none")
        => (mainPc = "exited" /\ BothFinished /\ doneClosed)
  /\ (startupErr = "none" /\ interrupts = 0 /\ ~BothFinished) => Alive

\* the pipeline has finished and triggered the signal, the server has not
\* returned, no interrupt has arrived: the coordinator is blocked in the
\* outer select with no timer armed
C17_Witness ==
  /\ Alive
  /\ cancelCalls = {"pipeline"}
  /\ ctxDone
  /\ g["server"] = "running"
  /\ mainPc = "selectWait"
  /\ sel = "none"
  /\ timerLeft = -1
  /\ interrupts = 0

\* C18: when the tasks honour the cancellation signal, once a task has
\* finished the process eventually ends through os.Exit(0), unless an
\* interrupt arrives: with no interrupt at all the two tasks, the waiter and
\* the outer select never leave the process hanging.
C18_ExitsZeroWithoutInterrupt ==
  (Alive /\ \E t \in Tasks : Finished(t))
     ~> ((mainPc = "exited" /\ exitCode = 0) \/ interrupts > 0)

\* the server returned on its own, the pipeline was inside a stage, observed
\* the signal and stopped as Cancelled, and the process exited with status 0
\* without any interrupt
C18_Witness ==
  /\ mainPc = "exited"
  /\ exitCode = 0
  /\ interrupts = 0
  /\ plState = "Cancelled"
  /\ stageIdx >= 1
  /\ cancelCalls = {"server"}

\* C19: once an interrupt has been handled the coordinator is in the inner
\* select or past it and never on the os.Exit(0) branch; it eventually
\* returns from run, having reported exactly one of "exited within timeout"
\* and "timeout exceeded", whether or not the tasks ever return; and an
\* interrupt that arrives afterwards changes nothing but the buffer of c.
C19_InterruptAlwaysReturns ==
  /\ [](~(TimeoutReported /\ WithinTimeoutReported))
  /\ [](InterruptHandled => mainPc \in {"innerSelect", "innerWait", "return", "returned"})
  /\ []((InterruptHandled /\ mainPc \in {"return", "returned"})
           => (TimeoutReported \/ WithinTimeoutReported))
  /\ [][ (InterruptHandled /\ interrupts' # interrupts)
           => UNCHANGED << mainVars, exitCode, logs, ctxDone, cancelCalls, wg, g, plVars,
                           pending, waiterPc, doneClosed, notified, timerLeft, sel,
                           intrEarly, doneAt >> ]_vars
  /\ InterruptHandled ~> (mainPc = "returned" /\ exitCode = 0)

\* the pipeline never left its stage, a second interrupt arrived during the
\* wait and stayed in the buffer of c, the timeout was reported and run
\* returned
C19_Witness ==
  /\ mainPc = "returned"
  /\ TimeoutReported
  /\ ~WithinTimeoutReported
  /\ inStage
  /\ interrupts = 2
  /\ c = 1
====
